---------------------------- MODULE Spec2Model ----------------------------
(***************************************************************************)
(* A model of QuantumSimulator (simulator.py): one simulator object, its   *)
(* constructor, set_initial_wavefunction, step, evolve, update_potential   *)
(* and the two observable queries.                                         *)
(*                                                                         *)
(* Numbers.  Python floats are modelled by exact rationals [num, den];     *)
(* rounding, overflow and underflow of IEEE doubles are outside the model. *)
(* The parameters L, m, hbar, dt, the clock and total_time are integers    *)
(* (any common unit), complex entries are Gaussian integers <<re, im>>.    *)
(*                                                                         *)
(* Arrays.  A numpy array is an object [id, data, s, props]: `id` is the   *)
(* object's identity (two names alias iff the ids are equal), and the      *)
(* value it holds is                                                       *)
(*      exp(props[k]) ... exp(props[1]) (data / sqrt(s))                   *)
(* where each props[i] is a propagator argument -1j*H*dt/hbar kept as the  *)
(* term [H, dt, hbar].  The program never writes into an array in place,   *)
(* so an object's value never changes after it is made.                    *)
(***************************************************************************)
EXTENDS Integers, Sequences, FiniteSets, TLC

\* Model bound: the longest history explored (evolve's total_time is drawn
\* from -1..MaxHist).
MaxHist == 3

VARIABLES
    alive,      \* TRUE once a constructor call has returned an object
    L, N, m, hbar, dt,      \* self.L, self.N, self.m, self.hbar, self.dt
    dx,         \* self.dx
    x,          \* self.x, the grid
    V,          \* self.V, the stored potential
    T,          \* self.T, the kinetic operator
    H,          \* self.H, the Hamiltonian
    U_matrix,   \* self.U_matrix
    psi,        \* self.psi, the current wavefunction (None before install)
    time,       \* self.time
    history,    \* self.history
    arg,        \* the caller's psi0 array of the latest install
    last,       \* the latest call: [op, outcome, k] (k: its size/time argument)
    steps_done, \* single steps completed since the latest install
    V_set       \* the potential stored by the latest constructor or
                \* update_potential call that returned normally

vars == <<alive, L, N, m, hbar, dt, dx, x, V, T, H, U_matrix, psi, time,
          history, arg, last, steps_done, V_set>>
object == <<L, N, m, hbar, dt, dx, x, V, T, H, U_matrix, psi, time, history>>

---------------------------------------------------------------------------
\* Rationals and small helpers.

Rat(a, b) == [num |-> a, den |-> b]
RatEq(p, q) == p.num * q.den = q.num * p.den
RatPositive(p) == p.num * p.den > 0
Max0(k) == IF k > 0 THEN k ELSE 0
Abs(k) == IF k < 0 THEN -k ELSE k

\* Python's None for self.psi, and an array freshly made from caller data.
None == [id |-> 0, data |-> <<>>, s |-> Rat(1, 1), props |-> <<>>]
NewArray(i, d) == [id |-> i, data |-> d, s |-> Rat(1, 1), props |-> <<>>]

Ids(h) == {h[i].id : i \in 1..Len(h)}
\* The identity of a newly allocated object: one no live object has.
Fresh(live) ==
    CHOOSE k \in 1..(Cardinality(live) + 1) :
        k \notin live /\ \A j \in 1..(k - 1) : j \in live

---------------------------------------------------------------------------
\* Inputs.

\* Construction parameters: the documented defaults' shape (a valid
\* configuration) and every configuration that differs from it in one
\* parameter, non-positive values included.
Base == [L |-> 1, N |-> 3, m |-> 1, hbar |-> 1, dt |-> 1]
Configs ==
    {[Base EXCEPT !.L = v] : v \in {-1, 0, 1}}
    \cup {[Base EXCEPT !.N = v] : v \in {-1, 0, 1, 2}}
    \cup {[Base EXCEPT !.m = v] : v \in {-1, 0}}
    \cup {[Base EXCEPT !.hbar = v] : v \in {-1}}
    \cup {[Base EXCEPT !.dt = v] : v \in {-1, 0, 2}}

\* Lengths of the arrays a caller passes: from one cell to one more than N.
Lengths == 1..(Base.N + 1)

\* Real arrays a caller may pass as a potential: all zero, or one barrier cell.
ZeroPotential(len) == [i \in 1..len |-> 0]
BarrierArray(len) == [i \in 1..len |-> IF i = 2 \/ len = 1 THEN 10 ELSE 0]
PotentialArrays ==
    {ZeroPotential(len) : len \in Lengths} \cup {BarrierArray(len) : len \in Lengths}

\* Complex arrays a caller may pass as psi0: all zero, or 1 + (i-1)j.
ZeroWave(len) == [i \in 1..len |-> <<0, 0>>]
RampWave(len) == [i \in 1..len |-> <<1, i - 1>>]
WaveArrays ==
    {ZeroWave(len) : len \in Lengths} \cup {RampWave(len) : len \in Lengths}

TotalTimes == (-1)..MaxHist

---------------------------------------------------------------------------
\* Example potential functions (callables of the grid).

infinite_well(grid) == [i \in 1..Len(grid) |-> 0]

\* mask = (x > center - width/2) & (x < center + width/2), with the
\* defaults height 10.0, width 0.1, center 0.5: 9/20 < x < 11/20.
\* (grid denominators are positive for every grid a live object holds)
InWindow(p, lo, hi, d) ==
    IF p.den > 0
    THEN p.num * d > lo * p.den /\ p.num * d < hi * p.den
    ELSE p.num * d < lo * p.den /\ p.num * d > hi * p.den
barrier_potential(grid) ==
    [i \in 1..Len(grid) |-> IF InWindow(grid[i], 9, 11, 20) THEN 10 ELSE 0]

\* defaults height 10.0, width 0.05, centers 0.4 and 0.6:
\* 15/40 < x < 17/40 or 23/40 < x < 25/40.
double_barrier(grid) ==
    [i \in 1..Len(grid) |->
        IF InWindow(grid[i], 15, 17, 40) \/ InWindow(grid[i], 23, 25, 40)
        THEN 10 ELSE 0]

Callables == {"infinite_well", "barrier_potential", "double_barrier"}
\* A potential argument is an array (callable = "no"), one of the three
\* example functions, or some other function ("lambda") returning `array`.
PotentialInputs ==
    [callable : {"no", "lambda"}, array : PotentialArrays]
    \cup [callable : Callables, array : {<<>>}]
\* What a potential argument evaluates to: potential(self.x) for a callable,
\* the array itself otherwise.
PotentialValue(p, grid) ==
    CASE p.callable = "infinite_well" -> infinite_well(grid)
      [] p.callable = "barrier_potential" -> barrier_potential(grid)
      [] p.callable = "double_barrier" -> double_barrier(grid)
      [] OTHER -> p.array

---------------------------------------------------------------------------
\* Grid and operators (the constructor's arithmetic).

\* self.dx = L / (N - 1)
GridSpacing(len, n) == Rat(len, n - 1)
\* np.linspace(0, L, N)
linspace(len, n) == [i \in 1..n |-> Rat((i - 1) * len, n - 1)]
\* kinetic_coeff = -hbar**2 / (2 * m * self.dx**2)
kinetic_coeff(hb, mass, d) ==
    Rat(-(hb * hb) * (d.den * d.den), 2 * mass * (d.num * d.num))
Stencil(i, j) == IF i = j THEN -2 ELSE IF Abs(i - j) = 1 THEN 1 ELSE 0
\* kinetic_coeff * diags([ones(N-1), -2*ones(N), ones(N-1)], [-1, 0, 1])
KineticOperator(c, n) ==
    [i \in 1..n |-> [j \in 1..n |-> Rat(c.num * Stencil(i, j), c.den)]]

\* scipy.sparse.diags(V, shape=(N, N)): the main diagonal takes V[:N]; a
\* one-element V is broadcast; a V with 0 or 2..N-1 elements raises.
DiagsRaises(v, n) == Len(v) # 1 /\ Len(v) < n
diags(v, n) == [i \in 1..n |-> IF Len(v) = 1 THEN v[1] ELSE v[i]]
\* self.T + diags(self.V, shape=(N, N))
Hamiltonian(t, v, n) ==
    [i \in 1..n |-> [j \in 1..n |->
        IF i = j
        THEN Rat(t[i][j].num + diags(v, n)[i] * t[i][j].den, t[i][j].den)
        ELSE t[i][j]]]

\* The outcome of QuantumSimulator(L, N, m, hbar, dt, potential), statement
\* by statement; `given` tells whether a potential was passed, p is that
\* argument and v0 the potential array the constructor stores.
ConstructOutcome(c, given, p, v0) ==
    IF c.N = 1 THEN "ZeroDivisionError"                  \* L / (N - 1)
    ELSE IF c.N < 0 THEN "ValueError"                    \* np.linspace(0, L, N)
    ELSE IF given /\ p.callable = "no" THEN "TypeError"  \* potential(self.x)
    ELSE IF c.m = 0 \/ c.L = 0 THEN "ZeroDivisionError"  \* / (2*m*dx**2)
    ELSE IF c.N = 0 THEN "ValueError"                    \* np.ones(N-1)
    ELSE IF DiagsRaises(v0, c.N) THEN "ValueError"       \* diags(self.V, ...)
    ELSE "ok"

---------------------------------------------------------------------------
\* Wavefunction arithmetic.

RECURSIVE SumAbsSq(_)
\* np.sum(np.abs(psi0)**2)
SumAbsSq(d) ==
    IF d = <<>> THEN 0
    ELSE d[1][1] * d[1][1] + d[1][2] * d[1][2] + SumAbsSq(Tail(d))

\* np.sum(np.abs(psi0)**2) * self.dx, the number under the square root
NormSquared(d, spacing) == Rat(SumAbsSq(d) * spacing.num, spacing.den)

\* psi0 / np.sqrt(np.sum(np.abs(psi0)**2) * self.dx): a new array object i.
\* (numpy divides by zero and takes the root of a negative number with a
\* warning, not an exception: the result then holds nan/inf.)
Normalized(a, spacing, i) ==
    [id |-> i, data |-> a.data,
     s |-> Rat(a.s.num * NormSquared(a.data, spacing).num,
               a.s.den * NormSquared(a.data, spacing).den),
     props |-> a.props]

\* sum(|psi_i|^2) * dx of an array no propagator has been applied to; it is a
\* number only when the divisor s is positive (else the entries are nan/inf).
TotalProbability(a, spacing) ==
    Rat(SumAbsSq(a.data) * spacing.num * a.s.den, spacing.den * a.s.num)
IsNormalized(a, spacing) ==
    /\ a.props = <<>>
    /\ RatPositive(a.s)
    /\ RatEq(TotalProbability(a, spacing), Rat(1, 1))

\* (a bug: the array itself is stored, not a copy of it)
copy_Alias(a, i) == a
\* ndarray.copy(): a new object i holding the same value.
copy(a, i) == [a EXCEPT !.id = i]

\* -1j * self.H * self.dt / self.hbar
PropagatorArg(h, d, hb) == [H |-> h, dt |-> d, hbar |-> hb]
\* expm_multiply(A, b): a new array object i; raises when the shapes differ.
expm_multiply(A, b, i) == [b EXCEPT !.id = i, !.props = Append(b.props, A)]

\* int(total_time / self.dt): the quotient truncated toward zero (d # 0).
StepCount(total_time, d) ==
    IF (total_time < 0) = (d < 0)
    THEN Abs(total_time) \div Abs(d)
    ELSE -(Abs(total_time) \div Abs(d))

---------------------------------------------------------------------------
\* step(), as a function of the three fields it assigns.

StepOutcome(p, h) ==
    IF p = None THEN "ValueError"                       \* psi is None
    ELSE IF Len(h) # Len(p.data) THEN "ValueError"      \* expm_multiply shapes
    ELSE "ok"

\* self.time += self.dt
ClockAfterStep(t, d) == t + d
\* (a bug: the snapshot is not recorded)
HistoryAfterStep_Dropped(h, c) == h
\* self.history.append(self.psi.copy())
HistoryAfterStep(h, c) == Append(h, c)

StepState(st) ==
    LET i1 == Fresh({arg.id} \cup Ids(st.history))
        new == expm_multiply(PropagatorArg(H, dt, hbar), st.psi, i1)
        i2 == Fresh({arg.id, i1} \cup Ids(st.history))
    IN  [psi |-> new,
         time |-> ClockAfterStep(st.time, dt),
         history |-> HistoryAfterStep(st.history, copy(new, i2))]

RECURSIVE EvolveLoop(_, _, _)
\* for _ in range(steps): self.step()  -- stops at the first step that raises
EvolveLoop(st, k, done) ==
    IF k <= 0 THEN [st |-> st, done |-> done, outcome |-> "ok"]
    ELSE IF StepOutcome(st.psi, H) # "ok"
         THEN [st |-> st, done |-> done, outcome |-> StepOutcome(st.psi, H)]
         ELSE EvolveLoop(StepState(st), k - 1, done + 1)

---------------------------------------------------------------------------
\* The state machine.

Call(op, outcome, k) == [op |-> op, outcome |-> outcome, k |-> k]

Init ==
    /\ alive = FALSE
    /\ L = 0 /\ N = 0 /\ m = 0 /\ hbar = 0 /\ dt = 0
    /\ dx = Rat(0, 1)
    /\ x = <<>> /\ V = <<>> /\ T = <<>> /\ H = <<>>
    /\ U_matrix = "None"
    /\ psi = None /\ time = 0 /\ history = <<>>
    /\ arg = None
    /\ last = Call("none", "ok", 0)
    /\ steps_done = 0
    /\ V_set = <<>>

\* QuantumSimulator(L, N, m, hbar, dt, potential): one constructor call.
QuantumSimulator ==
    /\ ~alive /\ last.op = "none"
    /\ \E c \in Configs, given \in BOOLEAN, p \in PotentialInputs :
        LET grid == linspace(c.L, c.N)
            v0 == IF given THEN PotentialValue(p, grid) ELSE ZeroPotential(c.N)
            out == ConstructOutcome(c, given, p, v0)
            spacing == GridSpacing(c.L, c.N)
            kinetic == KineticOperator(kinetic_coeff(c.hbar, c.m, spacing), c.N)
        IN  /\ given \/ p = [callable |-> "infinite_well", array |-> <<>>]
            /\ last' = Call("QuantumSimulator", out, IF given THEN Len(v0) ELSE c.N)
            /\ IF out = "ok"
               THEN /\ alive' = TRUE
                    /\ L' = c.L /\ N' = c.N /\ m' = c.m /\ hbar' = c.hbar /\ dt' = c.dt
                    /\ dx' = spacing
                    /\ x' = grid
                    /\ V' = v0
                    /\ T' = kinetic
                    /\ H' = Hamiltonian(kinetic, v0, c.N)
                    /\ U_matrix' = "None"
                    /\ psi' = None /\ time' = 0 /\ history' = <<>>
                    /\ V_set' = v0
               ELSE UNCHANGED <<alive, object, V_set>>
            /\ UNCHANGED <<arg, steps_done>>

\* (a bug: the clock is not reset)
ClockAfterInstall_Kept(t) == t
\* self.time = 0.0
ClockAfterInstall(t) == 0
\* self.history = [self.psi.copy()]
HistoryAfterInstall(h, c) == <<c>>

\* set_initial_wavefunction(psi0)
set_initial_wavefunction ==
    /\ alive
    /\ \E a \in WaveArrays :
        LET psi0 == NewArray(Fresh({}), a)
            new == Normalized(psi0, dx, Fresh({psi0.id}))
        IN  /\ psi' = new
            /\ time' = ClockAfterInstall(time)
            /\ history' = HistoryAfterInstall(history, copy(new, Fresh({psi0.id, new.id})))
            /\ arg' = psi0
            /\ last' = Call("set_initial_wavefunction", "ok", Len(a))
    /\ steps_done' = 0
    /\ UNCHANGED <<alive, L, N, m, hbar, dt, dx, x, V, T, H, U_matrix, V_set>>

\* step()
step ==
    /\ alive
    /\ Len(history) < MaxHist
    /\ LET out == StepOutcome(psi, H)
           st == StepState([psi |-> psi, time |-> time, history |-> history])
       IN  /\ last' = Call("step", out, 0)
           /\ IF out = "ok"
              THEN /\ psi' = st.psi /\ time' = st.time /\ history' = st.history
                   /\ steps_done' = steps_done + 1
              ELSE UNCHANGED <<psi, time, history, steps_done>>
    /\ UNCHANGED <<alive, L, N, m, hbar, dt, dx, x, V, T, H, U_matrix, arg, V_set>>

\* evolve(total_time)
evolve ==
    /\ alive
    /\ \E total_time \in TotalTimes :
        IF dt = 0
        THEN /\ last' = Call("evolve", "ZeroDivisionError", total_time)
             /\ UNCHANGED <<psi, time, history, steps_done>>
        ELSE LET steps == StepCount(total_time, dt)
                 run == EvolveLoop([psi |-> psi, time |-> time, history |-> history],
                                   steps, 0)
             IN  /\ StepOutcome(psi, H) = "ok" => Len(history) + Max0(steps) <= MaxHist
                 /\ last' = Call("evolve", run.outcome, total_time)
                 /\ psi' = run.st.psi /\ time' = run.st.time
                 /\ history' = run.st.history
                 /\ steps_done' = steps_done + run.done
    /\ UNCHANGED <<alive, L, N, m, hbar, dt, dx, x, V, T, H, U_matrix, arg, V_set>>

\* (a bug: the query answers on an unset wavefunction)
DensityOutcome_Silent(p) == "ok"
\* np.abs(self.psi)**2
DensityOutcome(p) == IF p = None THEN "TypeError" ELSE "ok"   \* np.abs(None)
\* probability_density()
probability_density ==
    /\ alive
    /\ last' = Call("probability_density", DensityOutcome(psi), 0)
    /\ UNCHANGED <<alive, object, arg, steps_done, V_set>>

ExpectationOutcome(p, grid) ==
    IF DensityOutcome(p) # "ok" THEN DensityOutcome(p)
    ELSE IF Len(p.data) \notin {Len(grid), 1} THEN "ValueError"   \* self.x * density
    ELSE "ok"
\* expectation_position()
expectation_position ==
    /\ alive
    /\ last' = Call("expectation_position", ExpectationOutcome(psi, x), 0)
    /\ UNCHANGED <<alive, object, arg, steps_done, V_set>>

\* (a bug: the Hamiltonian is not rebuilt)
RebuiltHamiltonian_Stale(t, v, n) == H
\* self.H = self.T + diags(self.V, shape=(self.N, self.N))
RebuiltHamiltonian(t, v, n) == Hamiltonian(t, v, n)

\* (a bug: the sum is stored back into the kinetic operator as well)
update_potential_ClobbersT ==
    /\ alive
    /\ \E v \in {PotentialValue(p, x) : p \in PotentialInputs} :
            /\ V' = v
            /\ IF DiagsRaises(v, N)
               THEN /\ last' = Call("update_potential", "ValueError", Len(v))
                    /\ UNCHANGED <<T, H, U_matrix, V_set>>
               ELSE /\ last' = Call("update_potential", "ok", Len(v))
                    /\ V_set' = v
                    /\ T' = RebuiltHamiltonian(T, v, N)
                    /\ H' = RebuiltHamiltonian(T, v, N)
                    /\ U_matrix' = "None"
    /\ UNCHANGED <<alive, L, N, m, hbar, dt, dx, x, psi, time, history, arg,
                   steps_done>>
\* update_potential(new_potential)
update_potential ==
    /\ alive
    /\ \E v \in {PotentialValue(p, x) : p \in PotentialInputs} :
            /\ V' = v
            /\ IF DiagsRaises(v, N)
               THEN /\ last' = Call("update_potential", "ValueError", Len(v))
                    /\ UNCHANGED <<H, U_matrix, V_set>>
               ELSE /\ last' = Call("update_potential", "ok", Len(v))
                    /\ V_set' = v
                    /\ H' = RebuiltHamiltonian(T, v, N)
                    /\ U_matrix' = "None"
    /\ UNCHANGED <<alive, L, N, m, hbar, dt, dx, x, T, psi, time, history, arg,
                   steps_done>>

Next ==
    \/ QuantumSimulator
    \/ set_initial_wavefunction
    \/ step
    \/ evolve
    \/ probability_density
    \/ expectation_position
    \/ update_potential

Spec == Init /\ [][Next]_vars

---------------------------------------------------------------------------
\* Properties.

SameValue(a, b) == a.data = b.data /\ a.s = b.s /\ a.props = b.props
Installed == "set_initial_wavefunction"
\* The configurations the specification allows.
ValidConfig == L > 0 /\ m > 0 /\ hbar > 0 /\ dt > 0 /\ N >= 2

\* C1: right after set_initial_wavefunction the history has exactly one
\* entry, and after n further completed single steps (by step, by evolve, or
\* both, with update_potential and queries in between) it has exactly 1 + n.
C1_HistoryLengthLaw ==
    /\ (last.op = Installed => Len(history) = 1 /\ steps_done = 0)
    /\ (psi # None => Len(history) = 1 + steps_done)
    /\ (psi = None => history = <<>>)
C1_Witness ==
    /\ last.op = "evolve" /\ last.outcome = "ok"
    /\ steps_done = 2 /\ Len(history) = 3
    /\ V # ZeroPotential(N)

\* C2: the clock is 0 right after every install, grows by exactly dt on every
\* completed step and by nothing else, so time = (len(history) - 1) * dt with
\* a wavefunction installed; between installs it never decreases when dt > 0.
C2_ClockLaw ==
    [][/\ (last'.op = Installed => time' = 0)
       /\ (last'.op # Installed => time' = time + dt' * (steps_done' - steps_done))
       /\ (psi' # None => time' = (Len(history') - 1) * dt')
       /\ (last'.op # Installed /\ dt' > 0 => time' >= time)]_vars
C2_Witness == dt = 2 /\ time = 4 /\ Len(history) = 3 /\ last.op = "step"

\* C3: for every total_time and dt > 0, evolve(total_time) on a simulator with
\* a wavefunction installed performs exactly floor(total_time / dt) single
\* steps (none when that is not positive) and returns.  (Stated for the
\* validly configured simulators only: it fails already there.)
C3_EvolveStepCount ==
    [][(last'.op = "evolve" /\ psi # None /\ ValidConfig)
        => /\ last'.outcome = "ok"
           /\ Len(history') = Len(history) + Max0(last'.k \div dt)
           /\ steps_done' = steps_done + Max0(last'.k \div dt)]_vars

\* C4: update_potential, set_initial_wavefunction or the constructor, given
\* an array whose length differs from N, fails, and the object is what it
\* was before the call (no object, for the constructor).  (Stated for the
\* validly configured simulators only: it fails already there.)
C4_DimensionMismatch ==
    [][/\ (last'.op \in {"update_potential", Installed} /\ last'.k # N
              /\ ValidConfig
            => last'.outcome # "ok" /\ object' = object)
       /\ (last'.op = "QuantumSimulator" /\ alive' /\ ValidConfig'
            => last'.k = N')]_vars

\* The calls that need a wavefunction: step, the two queries, and an evolve
\* whose step count is at least 1.
UninitializedUse(call, d) ==
    \/ call.op \in {"step", "probability_density", "expectation_position"}
    \/ call.op = "evolve" /\ d # 0 /\ StepCount(call.k, d) >= 1
\* C5: with no wavefunction ever installed, step(), evolve() of at least one
\* step, probability_density() and expectation_position() each fail, and psi
\* stays unset, time 0 and history empty.
C5_Uninitialized ==
    [][(alive /\ psi = None /\ UninitializedUse(last', dt))
        => /\ last'.outcome # "ok"
           /\ psi' = None /\ time' = 0 /\ history' = <<>>]_vars
C5_Witness ==
    /\ alive /\ psi = None /\ time = 0 /\ history = <<>>
    /\ last.op = "evolve" /\ last.k = 2 /\ last.outcome = "ValueError"

\* C6: no simulator object exists with a non-positive L, m, hbar or dt, or
\* with N < 2: such a construction fails.
C6_ValidConfiguration == alive => ValidConfig

\* C7: a successful update_potential with a length-N potential (array or
\* function of the grid) changes only V, H and the cached propagator; T, the
\* grid, psi, the clock and the history are unchanged, and T is always what
\* the constructor computed.
C7_PotentialUpdateFrame ==
    [][/\ (last'.op = "update_potential" /\ last'.outcome = "ok" /\ last'.k = N
            => <<L, N, m, hbar, dt, dx, x, T, psi, time, history>>'
                 = <<L, N, m, hbar, dt, dx, x, T, psi, time, history>>)
       /\ (alive' => T' = KineticOperator(kinetic_coeff(hbar', m', dx'), N'))]_vars
C7_Witness ==
    /\ last.op = "update_potential" /\ last.outcome = "ok" /\ last.k = N
    /\ V # ZeroPotential(N)
    /\ Len(history) = 3 /\ time = 2 * dt /\ dt # 0

\* No two of the history entries, the current wavefunction and the caller's
\* array are the same object.
DistinctObjects ==
    /\ \A i, j \in 1..Len(history) : i # j => history[i].id # history[j].id
    /\ \A i \in 1..Len(history) : history[i].id \notin {psi.id, arg.id}
    /\ psi # None => psi.id # arg.id
\* C8: index 0 of the history holds the installed normalized state; steps,
\* evolve, update_potential and queries leave every existing entry as it is,
\* where it is; every entry is an object of its own (not the current
\* wavefunction, not the caller's array, not another entry); a step adds
\* one entry at the end, and the last entry equals the current wavefunction.
C8_HistoryAppendOnly ==
    [][/\ DistinctObjects'
       /\ (psi' # None =>
              /\ Len(history') >= 1
              /\ SameValue(history'[1], Normalized(arg', dx', 0))
              /\ SameValue(history'[Len(history')], psi'))
       /\ (last'.op \notin {Installed, "QuantumSimulator"} =>
              /\ Len(history') >= Len(history)
              /\ \A i \in 1..Len(history) : history'[i] = history[i])
       /\ (last'.op = "step" /\ last'.outcome = "ok" =>
              Len(history') = Len(history) + 1)
       /\ (last'.op \in {"update_potential", "probability_density",
                          "expectation_position"} => history' = history)]_vars
C8_Witness ==
    /\ Len(history) = 3 /\ last.op = "step" /\ last.outcome = "ok"
    /\ history[1].props = <<>>
    /\ Len(history[2].props) = 1 /\ Len(history[3].props) = 2
    /\ history[3].props[2] # history[2].props[1]

\* C9: for every non-zero input array of length N, right after
\* set_initial_wavefunction sum(|psi_i|^2) * dx = 1 for the current
\* wavefunction and for the single history entry.
C9_NormalizedOnInstall ==
    (last.op = Installed /\ last.k = N /\ SumAbsSq(arg.data) # 0)
        => /\ IsNormalized(psi, dx)
           /\ Len(history) = 1 /\ IsNormalized(history[1], dx)

\* C10: after construction and after every update_potential that returns
\* normally H = T + diag(V) for the stored V, and every later step propagates
\* with the Hamiltonian of the latest potential so installed, never with one
\* built from an earlier potential.
C10_PotentialTakesEffect ==
    [][/\ (last'.op \in {"QuantumSimulator", "update_potential"}
              /\ last'.outcome = "ok"
            => H' = Hamiltonian(T', V', N') /\ U_matrix' = "None")
       /\ (last'.op = "step" /\ last'.outcome = "ok"
            => psi'.props =
                 Append(psi.props,
                        PropagatorArg(Hamiltonian(T, V_set, N), dt, hbar)))
       /\ (last'.op = "evolve"
            => \A i \in (Len(psi.props) + 1)..Len(psi'.props) :
                 psi'.props[i] = PropagatorArg(Hamiltonian(T, V_set, N), dt, hbar))]_vars
C10_Witness ==
    /\ last.op = "step" /\ last.outcome = "ok"
    /\ Len(psi.props) = 2 /\ psi.props[1].H # psi.props[2].H
    /\ psi.props[2].H = Hamiltonian(T, V, N)

=============================================================================
